---- MODULE Spec2Model ----
(***************************************************************************)
(* Model of orchestria's conversation loops (src/orchestria/agent/agent.py), *)
(* of the tool runner (src/orchestria/tool/tool.py), of the registry        *)
(* (src/orchestria/settings.py) and of the pure text functions they use.    *)
(*                                                                          *)
(* Texts are sequences of one-character strings, so that the tool regex,    *)
(* str.strip and json.loads are computed character by character.            *)
(***************************************************************************)
EXTENDS Integers, Sequences, FiniteSets, TLC

VARIABLES
    chat,               \* which loop runs: "ollama" (_start_ollama_chat),
                        \* "ollama_with_tools" or "anthropic"; before start_chat
                        \* has dispatched, the agent's provider
    system_prompt,      \* Agent._system_prompt
    supported_tools,    \* Agent._supported_tools
    messages,           \* the local list `messages` of the running loop
    pc,                 \* control point of the loop
    exc,                \* the exception that left start_chat ("" while it runs)
    requests,           \* provider requests issued so far
    nparts,             \* stream fragments received so far, over the session
    assistant_response, \* _start_ollama_chat: content under construction
    text,               \* _start_anthropic_chat: local `text`
    tool_uses,          \* _start_anthropic_chat: local `tool_uses`
    stream_blocks,      \* the content blocks the open stream has completed, in order
    message,            \* _start_anthropic_chat: content of the result message being built
    i,                  \* _start_anthropic_chat: position of `for tool_use in tool_uses`
    tool,               \* the Tool whose run() is awaited
    calls,              \* ids of the tool-use blocks whose tool.run was called this turn
    \* Tool._run_command
    child,              \* the tool's process: "unborn", "running" or "exited"
    returncode,         \* process.returncode: none until the process has exited
    child_out,          \* bytes the process has yet to write to its stdout
    child_err,          \* number of bytes the process has yet to write to its stderr
    stdout_buf,         \* bytes written to stdout and not yet returned by read()
    stderr_buf,         \* number of bytes written to stderr (nothing reads them)
    queue,              \* the local `queue`
    read_log,           \* the chunks process_output has decoded so far, in read order
    tasks,              \* state of the three tasks of the TaskGroup
    full_output,        \* print_output: local `full_output`
    run_pc,             \* control point of _run_command
    result,             \* what _run_command returned or raised
    \* Tool.run
    run_args,           \* the local `args`
    args_in,            \* `args` as the current call of run received it
    command,            \* the last element of the local `command`
    passes,             \* how many times the two substitutions were applied to it
    \* _Settings
    registry,           \* the content of config.json
    lookup,             \* the last call of get_tool_path / get_agent_path and its result
    \* Agent.__init__
    environ,            \* names defined in os.environ
    agent_secrets,      \* the `secrets` argument, then self._secrets
    tool_files          \* descriptors of the tools _load_tools has yet to load

runner_vars == <<child, returncode, child_out, child_err, stdout_buf, stderr_buf, queue, read_log,
                 tasks, full_output, run_pc, result>>
sanitizer_vars == <<run_args, args_in, command, passes>>
settings_vars == <<registry, lookup>>
construction_vars == <<environ, agent_secrets, tool_files>>

\* State no step of a conversation loop writes.
components == <<runner_vars, sanitizer_vars, settings_vars, construction_vars>>

loop_vars == <<chat, system_prompt, supported_tools, messages, pc, exc, requests, nparts,
               assistant_response, text, tool_uses, stream_blocks, message, i, tool,
               calls>>

vars == <<loop_vars, components>>

config == <<chat, system_prompt, supported_tools>>

(***************************************************************************)
(* Bounds of the model.                                                     *)
(***************************************************************************)
MaxRequests == 2    \* provider requests in one session
MaxParts == 4       \* stream fragments in one session
GrammarLen == 6     \* length of the texts the grammar is applied to on its own
MaxLines == 2       \* lines of the multi-line texts the grammar is applied to

(***************************************************************************)
(* Characters and texts.                                                    *)
(***************************************************************************)
Chars == {"t", "[", "]", "\"", " ", "\n"}
Letters == {"t", "A", "c", "i", "o", "n", "F", "a", "l", "s", "w", "e", "r"}
Digits == {"1"}
\* [a-zA-Z0-9_-] over the characters of the model
IdChars == Letters \cup Digits
Whitespace == {" ", "\n"}

Last(s) == s[Len(s)]

RECURSIVE LStrip(_)
LStrip(s) == IF s # <<>> /\ Head(s) \in Whitespace THEN LStrip(Tail(s)) ELSE s

RECURSIVE RStrip(_)
RStrip(s) ==
    IF s # <<>> /\ Last(s) \in Whitespace THEN RStrip(SubSeq(s, 1, Len(s) - 1)) ELSE s

Strip(s) == RStrip(LStrip(s))

SetMax(S) == CHOOSE x \in S : \A y \in S : y <= x

(***************************************************************************)
(* self._tool_regex.match(text): the pattern is tried at position 0 only;   *)
(* `$` under re.MULTILINE holds at the end of the text and before a         *)
(* newline; `.` is any character but a newline; both stars are greedy.      *)
(***************************************************************************)
EndOfLine(s, e) == e = Len(s) \/ s[e + 1] = "\n"

NameEnds(s) == {k \in 0..Len(s) : \A j \in 1..k : s[j] \in IdChars}

InputEnds(s, k) ==
    {e \in (k + 2)..Len(s) :
        /\ s[e] = "]"
        /\ \A j \in (k + 2)..(e - 1) : s[j] # "\n"
        /\ EndOfLine(s, e)}

RegexNames(s) == {k \in NameEnds(s) : k < Len(s) /\ s[k + 1] = "[" /\ InputEnds(s, k) # {}}

NoMatch == [matched |-> FALSE, name |-> <<>>, inputs |-> <<>>]

ToolRegexMatch(s) ==
    IF RegexNames(s) = {} THEN NoMatch
    ELSE LET k == SetMax(RegexNames(s))
             e == SetMax(InputEnds(s, k))
         IN  [matched |-> TRUE,
              name |-> SubSeq(s, 1, k),
              inputs |-> SubSeq(s, k + 2, e - 1)]

(***************************************************************************)
(* json.loads over the characters of the model: a value is a string         *)
(* literal, a number or an array; with no comma an array holds at most one  *)
(* value. JsonLoads is the Python type of the parsed value, or "error";     *)
(* JsonValue is the parsed value, written without insignificant whitespace. *)
(***************************************************************************)
IsJsonString(s) ==
    /\ Len(s) >= 2
    /\ s[1] = "\"" /\ Last(s) = "\""
    /\ \A j \in 2..(Len(s) - 1) : s[j] \notin {"\"", "\n"}

IsJsonNumber(s) == s # <<>> /\ \A j \in 1..Len(s) : s[j] \in Digits

RECURSIVE IsJsonValue(_)
IsJsonValue(s) ==
    LET v == Strip(s) IN
    \/ IsJsonString(v)
    \/ IsJsonNumber(v)
    \/ /\ Len(v) >= 2
       /\ v[1] = "[" /\ Last(v) = "]"
       /\ LET inner == SubSeq(v, 2, Len(v) - 1)
          IN  Strip(inner) = <<>> \/ IsJsonValue(inner)

JsonLoads(s) ==
    IF ~IsJsonValue(s) THEN "error"
    ELSE IF Head(Strip(s)) = "\"" THEN "str"
    ELSE IF Head(Strip(s)) \in Digits THEN "int" ELSE "list"

RECURSIVE JsonValue(_)
JsonValue(s) ==
    LET v == Strip(s) IN
    IF Head(v) # "[" THEN v
    ELSE LET inner == SubSeq(v, 2, Len(v) - 1)
         IN  <<"[">> \o (IF Strip(inner) = <<>> THEN <<>> ELSE JsonValue(inner)) \o <<"]">>

(***************************************************************************)
(* Tools.                                                                   *)
(***************************************************************************)
EchoTool == [name |-> <<"t">>, language |-> "python"]
ToolSets == {<<>>, <<EchoTool>>}
NoTool == [name |-> <<>>, language |-> ""]

\* [t for t in self._supported_tools if t.name == tool_name]
RECURSIVE SelectTools(_, _)
SelectTools(tools, name) ==
    IF tools = <<>> THEN <<>>
    ELSE (IF Head(tools).name = name THEN <<Head(tools)>> ELSE <<>>)
         \o SelectTools(Tail(tools), name)

\* Tool.run up to its first await: the language check, then re.sub on args.
RunSync(t, args) ==
    IF t.language # "python" THEN "NotImplementedError"
    ELSE IF args # "str" THEN "TypeError"
    ELSE "spawn"

\* What the awaited Tool._run_command ends with: the parsed payload, or an error.
RunOutcomes == {"outputs", "ValueError", "IndexError", "ExceptionGroup", "OSError"}

\* `except Exception`: asyncio.CancelledError and KeyboardInterrupt are BaseException.
ExceptionClasses ==
    {"ValueError", "IndexError", "ExceptionGroup", "OSError", "TypeError",
     "NotImplementedError", "JSONDecodeError"}
\* Variant: the handler is `except ValueError`.
CaughtOnlyValueError(e) == e = "ValueError"
CaughtByExcept(e) == e \in ExceptionClasses

(***************************************************************************)
(* Messages and content blocks.                                             *)
(***************************************************************************)
TextMsg(role, t) ==
    [role |-> role, form |-> "text", text |-> t, blocks |-> <<>>, result |-> ""]
BlocksMsg(role, b) ==
    [role |-> role, form |-> "blocks", text |-> <<>>, blocks |-> b, result |-> ""]
\* {"role": "tool", "content": f"{tool_outputs}"} or "Something went wrong: {exc}"
ToolMsg(r) ==
    [role |-> "tool", form |-> "text", text |-> <<>>, blocks |-> <<>>, result |-> r]

TextBlock(t) ==
    [type |-> "text", id |-> 0, name |-> <<>>, input |-> "", text |-> t,
     content |-> "", is_error |-> FALSE]
ToolUseBlock(id, name, input) ==
    [type |-> "tool_use", id |-> id, name |-> name, input |-> input, text |-> <<>>,
     content |-> "", is_error |-> FALSE]
ToolResultBlock(id, content, is_error) ==
    [type |-> "tool_result", id |-> id, name |-> <<>>, input |-> "", text |-> <<>>,
     content |-> content, is_error |-> is_error]

NoText == [none |-> TRUE, s |-> <<>>]
Truthy(t) == ~t.none /\ t.s # <<>>

ConsoleInputs == {<<"t">>}

\* A system prompt as the agent's manifest gives it: a jinja2 template; "%" stands
\* for the expression that expands to the tool catalog.
PromptTemplate == <<"t", "%">>

\* What the template's expression expands to: the names of the tools, in order.
RECURSIVE Catalog(_)
Catalog(tools) == IF tools = <<>> THEN <<>> ELSE Head(tools).name \o Catalog(Tail(tools))

\* jinja2.Template(self._system_prompt).render(tools=self._supported_tools)
RECURSIVE Rendered(_, _)
Rendered(template, tools) ==
    IF template = <<>> THEN <<>>
    ELSE (IF Head(template) = "%" THEN Catalog(tools) ELSE <<Head(template)>>)
         \o Rendered(Tail(template), tools)

\* The start of a loop that pushes the system prompt: `messages = []`, then the
\* rendered prompt as a system message when the prompt is not empty.
SystemMessages(prompt, tools) ==
    IF prompt # <<>> THEN <<TextMsg("system", Rendered(prompt, tools))>> ELSE <<>>

(***************************************************************************)
(* The other components while a conversation loop runs: no tool process, no *)
(* argument being sanitized, a fresh registry, the agent constructed.       *)
(***************************************************************************)
NoResult == [kind |-> "", value |-> <<>>]
\* process.returncode is None
NoReturncode == [none |-> TRUE, code |-> 0]
NoTasks == [wait |-> "none", reader |-> "none", consumer |-> "none"]

RunnerIdle ==
    /\ child = "unborn"
    /\ returncode = NoReturncode
    /\ child_out = <<>>
    /\ child_err = 0
    /\ stdout_buf = <<>>
    /\ stderr_buf = 0
    /\ queue = <<>>
    /\ read_log = <<>>
    /\ tasks = NoTasks
    /\ full_output = <<>>
    /\ run_pc = "idle"
    /\ result = NoResult

SanitizerIdle ==
    /\ run_args = <<>>
    /\ args_in = <<>>
    /\ command = <<>>
    /\ passes = 0

Resources == {"tools", "agents"}
Names == {<<"t">>}
NoVersion == 0
NoPath == [none |-> TRUE, folder |-> ""]
NoLookup == [resource |-> "", name |-> <<>>, version |-> NoVersion, path |-> NoPath]
\* config.json as _Settings.__init__ writes it: no name has a version.
RegistryEmpty ==
    /\ registry = [r \in Resources |-> [n \in Names |-> <<>>]]
    /\ lookup = NoLookup
\* Tool.__init__ reads SETTINGS.registry["tools"][name]: a loaded tool is registered.
RegistryOf(tools) ==
    [r \in Resources |->
        [n \in Names |->
            IF r = "tools" /\ \E k \in 1..Len(tools) : tools[k].name = n
            THEN <<[version |-> 1, folder |-> "p"]>> ELSE <<>>]]

ApiKey == "ANTHROPIC_API_KEY"
NoSecrets == [form |-> "none", names |-> {}]
\* The descriptor a loaded tool came from, when it declares no secret.
Descriptor(t) == [name |-> t.name, language |-> t.language, secrets |-> NoSecrets]
\* Agent.__init__ is over: the secrets were given as a dict that holds the key the
\* client needs, every configured tool is loaded.
Constructed ==
    /\ environ = {}
    /\ agent_secrets = [form |-> "dict",
                        names |-> IF chat = "anthropic" THEN {ApiKey} ELSE {}]
    /\ tool_files = [k \in 1..Len(supported_tools) |-> Descriptor(supported_tools[k])]

AtRest ==
    /\ RunnerIdle
    /\ SanitizerIdle
    /\ registry = RegistryOf(supported_tools)
    /\ lookup = NoLookup
    /\ Constructed

\* No agent is running: the state of the loops before Agent.start_chat.
NoSession ==
    /\ chat = "ollama"
    /\ system_prompt = <<>>
    /\ supported_tools = <<>>
    /\ messages = <<>>
    /\ pc = "idle"
    /\ exc = ""
    /\ requests = 0
    /\ nparts = 0
    /\ assistant_response = <<>>
    /\ text = NoText
    /\ tool_uses = <<>>
    /\ stream_blocks = <<>>
    /\ message = <<>>
    /\ i = 0
    /\ tool = NoTool
    /\ calls = <<>>

Init ==
    /\ chat \in {"ollama", "anthropic"}
    /\ system_prompt \in {<<>>, PromptTemplate}
    /\ supported_tools \in ToolSets
    /\ messages = IF chat = "ollama"
                  THEN SystemMessages(system_prompt, supported_tools) ELSE <<>>
    /\ pc = "loop"
    /\ exc = ""
    /\ requests = 0
    /\ nparts = 0
    /\ assistant_response = <<>>
    /\ text = NoText
    /\ tool_uses = <<>>
    /\ stream_blocks = <<>>
    /\ message = <<>>
    /\ i = 0
    /\ tool = NoTool
    /\ calls = <<>>
    /\ AtRest

(***************************************************************************)
(* Steps shared by the two loops.                                           *)
(***************************************************************************)
counters == <<requests, nparts>>
ollama_locals == <<assistant_response>>
anthropic_locals == <<text, tool_uses, stream_blocks, message, i, calls>>

\* An exception nobody catches leaves start_chat and asyncio.run (cli.py, start):
\* the frame's scratch locals are dropped, the history is as it was last appended to.
Raise(e) ==
    /\ pc' = "terminated"
    /\ exc' = e
    /\ assistant_response' = <<>>
    /\ text' = NoText
    /\ tool_uses' = <<>>
    /\ stream_blocks' = <<>>
    /\ message' = <<>>
    /\ i' = 0
    /\ tool' = NoTool
    /\ calls' = <<>>
    /\ UNCHANGED <<config, components, messages, counters>>

\* console.input returns the operator's line; it is pushed as a user message.
UserInput ==
    /\ pc = "input"
    /\ \E user_prompt \in ConsoleInputs :
           messages' = Append(messages, TextMsg("user", user_prompt))
    /\ pc' = "request"
    /\ UNCHANGED <<config, components, exc, counters, ollama_locals, anthropic_locals, tool>>

\* The request to the provider is issued with the history as it stands.
Request ==
    /\ pc = "request"
    /\ requests < MaxRequests
    /\ requests' = requests + 1
    /\ assistant_response' = <<>>
    /\ text' = NoText
    /\ tool_uses' = <<>>
    /\ stream_blocks' = <<>>
    /\ calls' = <<>>
    /\ pc' = "stream"
    /\ UNCHANGED <<config, components, messages, exc, nparts, message, i, tool>>

\* The provider call or its stream raises; neither loop has a handler around it.
ProviderFailure ==
    /\ pc = "stream"
    /\ Raise("ProviderError")

\* Ctrl-C: KeyboardInterrupt inside console.input, or asyncio.run cancelling the
\* main task at the await it is suspended on. Both are BaseException.
AwaitPoints == {"input", "stream", "tool_run"}

Cancel ==
    /\ pc \in AwaitPoints
    /\ Raise("CancelledError")

(***************************************************************************)
(* _start_ollama_chat                                                       *)
(***************************************************************************)
\* The fragments a response is streamed in (model tokens).
StreamParts == {<<"t">>, <<"[">>, <<"]">>, <<"\n">>, <<" ", "\"", "\"", " ">>}

\* Variant: the regex is never found to match.
OllamaNeverRequestsTool(msgs) == FALSE

OllamaRequestsTool(msgs) ==
    /\ msgs # <<>>
    /\ Last(msgs).role = "assistant"
    /\ ToolRegexMatch(Last(msgs).text).matched

\* matches.groups(), each stripped
OllamaToolName(msgs) == Strip(ToolRegexMatch(Last(msgs).text).name)
\* Variant: group 2 is used as matched, not stripped.
OllamaToolInputsUnstripped(msgs) == ToolRegexMatch(Last(msgs).text).inputs
OllamaToolInputs(msgs) == Strip(ToolRegexMatch(Last(msgs).text).inputs)

\* tool.run(json.loads(tool_inputs)) up to the first await of run.
OllamaCall(t, tool_inputs) ==
    IF JsonLoads(tool_inputs) = "error" THEN "JSONDecodeError"
    ELSE RunSync(t, JsonLoads(tool_inputs))

\* The try/except around tool.run and the append that follows it.
OllamaToolDone(r) ==
    IF r = "outputs" \/ CaughtByExcept(r)
    THEN /\ messages' = Append(messages, ToolMsg(r))
         /\ pc' = "request"
         /\ tool' = NoTool
         /\ UNCHANGED <<config, components, exc, counters, ollama_locals, anthropic_locals>>
    ELSE Raise(r)

OllamaToolCall ==
    /\ chat = "ollama" /\ pc = "loop"
    /\ OllamaRequestsTool(messages)
    /\ LET found == SelectTools(supported_tools, OllamaToolName(messages))
       IN  IF found = <<>>
           THEN Raise("IndexError")
           ELSE IF OllamaCall(found[1], OllamaToolInputs(messages)) = "spawn"
                THEN /\ tool' = found[1]
                     /\ pc' = "tool_run"
                     /\ UNCHANGED <<config, components, messages, exc, counters, ollama_locals,
                                    anthropic_locals>>
                ELSE OllamaToolDone(OllamaCall(found[1], OllamaToolInputs(messages)))

OllamaNeedInput ==
    /\ chat = "ollama" /\ pc = "loop"
    /\ ~OllamaRequestsTool(messages)
    /\ pc' = "input"
    /\ UNCHANGED <<config, components, messages, exc, counters, ollama_locals, anthropic_locals,
                   tool>>

OllamaToolReturn ==
    /\ chat = "ollama" /\ pc = "tool_run"
    /\ \E r \in RunOutcomes : OllamaToolDone(r)

\* Variant: the append of assistant_response sits inside the `async for`.
OllamaStreamPartCommits ==
    /\ chat = "ollama" /\ pc = "stream"
    /\ nparts < MaxParts
    /\ \E part \in StreamParts : assistant_response' = assistant_response \o part
    /\ messages' = Append(messages, TextMsg("assistant", assistant_response'))
    /\ nparts' = nparts + 1
    /\ UNCHANGED <<config, components, pc, exc, requests, anthropic_locals, tool>>

\* Variant: the assistant's message is in the history while it is built and each
\* fragment extends it in place.
OllamaStreamPartInHistory ==
    /\ chat = "ollama" /\ pc = "stream"
    /\ nparts < MaxParts
    /\ \E part \in StreamParts : assistant_response' = assistant_response \o part
    /\ messages' = IF assistant_response # <<>> /\ messages # <<>>
                      /\ Last(messages).role = "assistant"
                   THEN [messages EXCEPT ![Len(messages)] =
                             TextMsg("assistant", assistant_response')]
                   ELSE Append(messages, TextMsg("assistant", assistant_response'))
    /\ nparts' = nparts + 1
    /\ UNCHANGED <<config, components, pc, exc, requests, anthropic_locals, tool>>

OllamaStreamPart ==
    /\ chat = "ollama" /\ pc = "stream"
    /\ nparts < MaxParts
    /\ \E part \in StreamParts : assistant_response' = assistant_response \o part
    /\ nparts' = nparts + 1
    /\ UNCHANGED <<config, components, messages, pc, exc, requests, anthropic_locals, tool>>

OllamaStreamEnd ==
    /\ chat = "ollama" /\ pc = "stream"
    /\ messages' = Append(messages, TextMsg("assistant", assistant_response))
    /\ pc' = "loop"
    /\ UNCHANGED <<config, components, exc, counters, ollama_locals, anthropic_locals, tool>>

(***************************************************************************)
(* _start_anthropic_chat                                                    *)
(***************************************************************************)
\* <<name, type of input>> of the tool-use blocks a response may hold
RequestedTools == {<<<<"t">>, "dict">>, <<<<"t">>, "str">>, <<<<"t", "t">>, "dict">>}
BlockTexts == {<<>>, <<"t">>}

\* Variant: the operator is prompted at every iteration.
AnthropicPromptsAlways(msgs) == TRUE
AnthropicNeedsPrompt(msgs) == msgs = <<>> \/ Last(msgs).role # "user"

AnthropicLoopTop ==
    /\ chat = "anthropic" /\ pc = "loop"
    /\ pc' = IF AnthropicNeedsPrompt(messages) THEN "input" ELSE "request"
    /\ UNCHANGED <<config, components, messages, exc, counters, ollama_locals, anthropic_locals,
                   tool>>

\* event.type == "content_block_stop" with a TextBlock
AnthropicTextBlock ==
    /\ chat = "anthropic" /\ pc = "stream"
    /\ nparts < MaxParts
    /\ \E t \in BlockTexts :
           /\ text' = [none |-> FALSE, s |-> t]
           /\ stream_blocks' = Append(stream_blocks, TextBlock(t))
    /\ nparts' = nparts + 1
    /\ UNCHANGED <<config, components, messages, pc, exc, requests, ollama_locals,
                   tool_uses, message, i, calls, tool>>

\* event.type == "content_block_stop" with a ToolUseBlock
AnthropicToolUseBlock ==
    /\ chat = "anthropic" /\ pc = "stream"
    /\ nparts < MaxParts
    /\ \E u \in RequestedTools :
           /\ tool_uses' = Append(tool_uses, ToolUseBlock(nparts + 1, u[1], u[2]))
           /\ stream_blocks' = Append(stream_blocks, ToolUseBlock(nparts + 1, u[1], u[2]))
    /\ nparts' = nparts + 1
    /\ UNCHANGED <<config, components, messages, pc, exc, requests, ollama_locals,
                   text, message, i, calls, tool>>

\* The assistant message built once the stream has ended: the last text block
\* if its text is not empty, then the tool-use blocks.
AssistantMessages(t, uses) ==
    IF Truthy(t) /\ uses = <<>> THEN <<TextMsg("assistant", t.s)>>
    ELSE IF uses # <<>>
         THEN <<BlocksMsg("assistant",
                          (IF Truthy(t) THEN <<TextBlock(t.s)>> ELSE <<>>) \o uses)>>
         ELSE <<>>

\* The `async for` is over: the stream is exhausted, the message is appended.
AnthropicStreamEnd ==
    /\ chat = "anthropic" /\ pc = "stream"
    /\ messages' = messages \o AssistantMessages(text, tool_uses)
    /\ stream_blocks' = <<>>
    /\ IF tool_uses # <<>>
       THEN message' = <<>> /\ i' = 1 /\ pc' = "tools"
       ELSE UNCHANGED <<message, i>> /\ pc' = "loop"
    /\ UNCHANGED <<config, components, exc, counters, ollama_locals, text, tool_uses, calls, tool>>

\* tool_result for the tool-use block under the loop variable
ResultBlock(tool_use, r) ==
    IF r = "outputs" THEN ToolResultBlock(tool_use.id, "outputs", FALSE)
    ELSE ToolResultBlock(tool_use.id, r, TRUE)

\* Variant: the result message keeps the latest tool_result only.
AppendResultOverwrites(content, tool_result) == <<tool_result>>
AppendResult(content, tool_result) == Append(content, tool_result)

\* Variant: the results are pushed under the role "tool".
ResultMessageAsTool(content) == BlocksMsg("tool", content)
ResultMessage(content) == BlocksMsg("user", content)

\* The try/except around tool.run, the append of tool_result, and, after the
\* last tool-use block, the append of the result message.
AnthropicToolDone(r, called) ==
    IF r = "outputs" \/ CaughtByExcept(r)
    THEN /\ message' = AppendResult(message, ResultBlock(tool_uses[i], r))
         /\ i' = i + 1
         /\ calls' = called
         /\ tool' = NoTool
         /\ IF i = Len(tool_uses)
            THEN /\ messages' = Append(messages, ResultMessage(message'))
                 /\ pc' = "loop"
            ELSE /\ messages' = messages
                 /\ pc' = "tools"
         /\ UNCHANGED <<config, components, exc, counters, ollama_locals, text, tool_uses,
                        stream_blocks>>
    ELSE Raise(r)

AnthropicToolCall ==
    /\ chat = "anthropic" /\ pc = "tools"
    /\ LET tool_use == tool_uses[i]
           found == SelectTools(supported_tools, tool_use.name)
           called == Append(calls, tool_use.id)
       IN  IF found = <<>>
           THEN Raise("IndexError")
           ELSE IF RunSync(found[1], tool_use.input) = "spawn"
                THEN /\ tool' = found[1]
                     /\ calls' = called
                     /\ pc' = "tool_run"
                     /\ UNCHANGED <<config, components, messages, exc, counters, ollama_locals,
                                    text, tool_uses, stream_blocks, message, i>>
                ELSE AnthropicToolDone(RunSync(found[1], tool_use.input), called)

AnthropicToolReturn ==
    /\ chat = "anthropic" /\ pc = "tool_run"
    /\ \E r \in RunOutcomes : AnthropicToolDone(r, calls)

Next ==
    \/ UserInput
    \/ Request
    \/ ProviderFailure
    \/ Cancel
    \/ OllamaToolCall
    \/ OllamaNeedInput
    \/ OllamaToolReturn
    \/ OllamaStreamPart
    \/ OllamaStreamEnd
    \/ AnthropicLoopTop
    \/ AnthropicTextBlock
    \/ AnthropicToolUseBlock
    \/ AnthropicStreamEnd
    \/ AnthropicToolCall
    \/ AnthropicToolReturn

Spec == Init /\ [][Next]_vars

(***************************************************************************)
(* Vocabulary of the properties.                                            *)
(***************************************************************************)
IsToolUse(b) == b.type = "tool_use"
ToolUsesOf(m) == SelectSeq(m.blocks, IsToolUse)
IdsOf(blocks) == [k \in 1..Len(blocks) |-> blocks[k].id]

\* A tool result as it is held in history: the text backend's tool message, or
\* the structured backend's user message of tool_result blocks.
IsToolResult(m) == m.role = "tool" \/ (m.role = "user" /\ m.form = "blocks")
UserOrTool(m) == m.role \in {"user", "tool"}

\* An assistant message that asks for a tool: tool-use blocks on the structured
\* backend, a match of the tool regex on the text backend.
AsksForTool(m) ==
    /\ m.role = "assistant"
    /\ IF m.form = "blocks" THEN ToolUsesOf(m) # <<>>
       ELSE chat = "ollama" /\ ToolRegexMatch(m.text).matched

\* Message r answers every tool request of assistant message a.
Answers(r, a) ==
    IF a.form = "blocks"
    THEN r.role = "user" /\ r.form = "blocks" /\ IdsOf(r.blocks) = IdsOf(ToolUsesOf(a))
    ELSE r.role = "tool"

(***************************************************************************)
(* C1: in every reachable state the history holds no two adjacent assistant *)
(* messages and no two adjacent messages whose roles are both user or tool. *)
(***************************************************************************)
C1_RolesAlternate ==
    \A k \in 1..(Len(messages) - 1) :
        /\ ~(messages[k].role = "assistant" /\ messages[k + 1].role = "assistant")
        /\ ~(UserOrTool(messages[k]) /\ UserOrTool(messages[k + 1]))

\* An assistant turn, its tool result and the assistant turn after it are in history.
C1_Witness ==
    \E k \in 1..(Len(messages) - 2) :
        /\ messages[k].role = "assistant"
        /\ IsToolResult(messages[k + 1])
        /\ messages[k + 2].role = "assistant"

(***************************************************************************)
(* C2: while a provider request is in flight the last message of the        *)
(* history it was issued with is no assistant message, and every assistant  *)
(* message that asked for tools is followed by the message carrying the     *)
(* results of all of them.                                                  *)
(***************************************************************************)
C2_ResultsBeforeRequest ==
    pc = "stream" =>
        /\ messages # <<>>
        /\ Last(messages).role # "assistant"
        /\ \A k \in 1..(Len(messages) - 1) :
               AsksForTool(messages[k]) => Answers(messages[k + 1], messages[k])

\* A request in flight whose history ends with the results of two tool uses.
C2_Witness ==
    /\ pc = "stream"
    /\ Len(messages) >= 2
    /\ AsksForTool(messages[Len(messages) - 1])
    /\ Len(Last(messages).blocks) = 2

(***************************************************************************)
(* C3: once a tool result is the last message of history the operator is    *)
(* not prompted: the loop is on its way to, or in, the next provider        *)
(* request (or the session has ended).                                      *)
(***************************************************************************)
C3_NoPromptAfterToolResult ==
    (messages # <<>> /\ IsToolResult(Last(messages))) =>
        pc \in {"loop", "request", "stream", "terminated"}

\* The request that follows a tool result is in flight.
C3_Witness ==
    /\ messages # <<>>
    /\ IsToolResult(Last(messages))
    /\ pc = "stream"
    /\ requests = 2

(***************************************************************************)
(* C4: when the model asks for a tool that is not configured, the next step *)
(* of the loop brings it to awaiting operator input.                        *)
(***************************************************************************)
UnknownToolPending ==
    \/ /\ chat = "ollama" /\ pc = "loop"
       /\ messages # <<>>
       /\ Last(messages).role = "assistant"
       /\ ToolRegexMatch(Last(messages).text).matched
       /\ SelectTools(supported_tools,
                      Strip(ToolRegexMatch(Last(messages).text).name)) = <<>>
    \/ /\ chat = "anthropic" /\ pc = "tools"
       /\ SelectTools(supported_tools, tool_uses[i].name) = <<>>

C4_UnknownToolReturnsToInput == [][UnknownToolPending => pc' = "input"]_vars

(***************************************************************************)
(* C5: a step in which the provider call or its stream fails does not end   *)
(* the session.                                                             *)
(***************************************************************************)
C5_ProviderFailureCaught ==
    [][(pc = "stream" /\ exc' = "ProviderError") => pc' # "terminated"]_vars

(***************************************************************************)
(* C6: history is untouched while a response is streamed and when the       *)
(* stream is interrupted; an assistant message enters history only in the   *)
(* step that ends its stream.                                               *)
(***************************************************************************)
C6_NoPartialAssistant ==
    [][/\ (pc = "stream" /\ pc' \in {"stream", "terminated"}) => messages' = messages
       /\ (messages' # messages /\ Last(messages').role = "assistant") =>
              (pc = "stream" /\ pc' \in {"loop", "tools"})]_vars

\* The first response was interrupted after a fragment had arrived.
C6_Witness ==
    /\ pc = "terminated" /\ exc = "CancelledError"
    /\ requests = 1 /\ nparts >= 1
    /\ \A k \in 1..Len(messages) : messages[k].role # "assistant"

(***************************************************************************)
(* C7: an operator cancellation while a response is streamed or a tool runs *)
(* brings the loop to awaiting operator input.                              *)
(***************************************************************************)
C7_CancellationReturnsToInput ==
    [][(pc \in {"stream", "tool_run"} /\ exc' = "CancelledError") => pc' = "input"]_vars

(***************************************************************************)
(* C8: on the structured backend tool.run is called for the tool-use blocks *)
(* in emitted order, one at a time, and the result message that follows an  *)
(* assistant message with tool-use blocks b1..bn holds exactly n            *)
(* tool_result blocks, the i-th addressed to the id of bi.                  *)
(***************************************************************************)
C8_ResultsInEmittedOrder ==
    chat = "anthropic" =>
        /\ Len(calls) <= Len(tool_uses)
        /\ calls = SubSeq(IdsOf(tool_uses), 1, Len(calls))
        /\ pc \in {"tools", "tool_run"} =>
               /\ IdsOf(message) = SubSeq(IdsOf(tool_uses), 1, Len(message))
               /\ Len(calls) = IF pc = "tools" THEN Len(message) ELSE Len(message) + 1
        /\ \A k \in 1..(Len(messages) - 1) :
               (messages[k].role = "assistant" /\ messages[k].form = "blocks") =>
                   /\ messages[k + 1].form = "blocks"
                   /\ \A j \in 1..Len(messages[k + 1].blocks) :
                          messages[k + 1].blocks[j].type = "tool_result"
                   /\ IdsOf(messages[k + 1].blocks) = IdsOf(ToolUsesOf(messages[k]))

\* A result message for a turn with two tool-use blocks has been appended.
C8_Witness ==
    /\ chat = "anthropic"
    /\ Len(calls) = 2
    /\ messages # <<>>
    /\ Last(messages).role = "user"
    /\ Len(Last(messages).blocks) = 2

(***************************************************************************)
(* C9: a step that calls a configured tool, or in which its run ends, never *)
(* ends the session unless the operator cancels; when the run is over the   *)
(* step records a tool result (is_error set exactly when it carries an      *)
(* error text) and the loop is on its way to the next provider request.     *)
(***************************************************************************)
ConfiguredToolPending ==
    \/ /\ chat = "ollama" /\ pc = "loop"
       /\ messages # <<>>
       /\ Last(messages).role = "assistant"
       /\ ToolRegexMatch(Last(messages).text).matched
       /\ ~UnknownToolPending
    \/ /\ chat = "anthropic" /\ pc = "tools"
       /\ ~UnknownToolPending

C9_ToolFailureBecomesResult ==
    [][((pc = "tool_run" \/ ConfiguredToolPending) /\ exc' # "CancelledError") =>
          /\ pc' # "terminated"
          /\ pc' # "tool_run" =>
                IF chat = "ollama"
                THEN /\ Len(messages') = Len(messages) + 1
                     /\ Last(messages').role = "tool"
                     /\ pc' = "request"
                ELSE /\ Len(message') = Len(message) + 1
                     /\ Last(message').type = "tool_result"
                     /\ Last(message').id = tool_uses[i].id
                     /\ Last(message').is_error = (Last(message').content # "outputs")
                     /\ pc' \in {"tools", "loop"}
                     /\ pc' = "loop" => Last(messages').blocks = message']_vars

\* The tool's process could not be started, the error is in history and the
\* next provider request is in flight.
C9_Witness ==
    /\ pc = "stream"
    /\ messages # <<>>
    /\ \/ Last(messages).result = "OSError"
       \/ /\ Last(messages).blocks # <<>>
          /\ Last(messages).blocks[1].content = "OSError"
          /\ Last(messages).blocks[1].is_error

(***************************************************************************)
(* The tool-call grammar on its own: the text-backend loop right after a    *)
(* first response, for every response text up to GrammarLen characters, and *)
(* the steps it takes up to its next provider request.                      *)
(***************************************************************************)
GrammarTexts == UNION {[1..n -> Chars] : n \in 0..GrammarLen}

InitGrammar ==
    /\ chat = "ollama"
    /\ system_prompt \in {<<>>, PromptTemplate}
    /\ supported_tools \in ToolSets
    /\ \E user_prompt \in ConsoleInputs, response \in GrammarTexts :
           /\ messages = SystemMessages(system_prompt, supported_tools)
                         \o <<TextMsg("user", user_prompt), TextMsg("assistant", response)>>
           /\ assistant_response = response
    /\ pc = "loop"
    /\ exc = ""
    /\ requests = 1
    /\ nparts = 1
    /\ text = NoText
    /\ tool_uses = <<>>
    /\ stream_blocks = <<>>
    /\ message = <<>>
    /\ i = 0
    /\ tool = NoTool
    /\ calls = <<>>
    /\ AtRest

NextGrammar ==
    \/ OllamaToolCall
    \/ OllamaNeedInput
    \/ OllamaToolReturn
    \/ UserInput
    \/ Cancel

SpecGrammar == InitGrammar /\ [][NextGrammar]_vars

\* s is name[arg]: name one or more identifier characters, arg within the line.
BracketForm(s) ==
    \E k \in 1..(Len(s) - 2) :
        /\ \A j \in 1..k : s[j] \in IdChars
        /\ s[k + 1] = "["
        /\ s[Len(s)] = "]"
        /\ \A j \in (k + 2)..(Len(s) - 1) : s[j] # "\n"

BracketName(s) == SubSeq(s, 1, (CHOOSE k \in 1..Len(s) : s[k] = "[" /\ \A j \in 1..(k - 1) : s[j] # "[") - 1)
BracketArg(s) == SubSeq(s, Len(BracketName(s)) + 2, Len(s) - 1)

\* a without its leading and trailing whitespace
Trimmed(a) ==
    LET solid == {j \in 1..Len(a) : a[j] \notin Whitespace}
    IN  IF solid = {} THEN <<>>
        ELSE SubSeq(a, CHOOSE lo \in solid : \A j \in solid : lo <= j, SetMax(solid))

(***************************************************************************)
(* C10: when the last assistant text is name[arg] (name one or more         *)
(* identifier characters, arg within the line), the text-backend loop       *)
(* extracts name and arg-without-surrounding-whitespace, treats the text as *)
(* an invocation, and selects the tool by that name: it fails exactly when  *)
(* no configured tool has the name, and the tool it runs has the name.      *)
(***************************************************************************)
C10_BracketFormExtracted ==
    [][(/\ pc = "loop"
        /\ Last(messages).role = "assistant"
        /\ BracketForm(Last(messages).text)) =>
          LET name == BracketName(Last(messages).text)
              arg == Trimmed(BracketArg(Last(messages).text))
          IN  /\ OllamaToolName(messages) = name
              /\ OllamaToolInputs(messages) = arg
              /\ pc' \in {"terminated", "tool_run", "request"}
              /\ pc' = "terminated" <=>
                     \A k \in 1..Len(supported_tools) : supported_tools[k].name # name
              /\ pc' = "tool_run" => (tool'.name = name /\ JsonLoads(arg) = "str")
              /\ pc' = "request" =>
                     Last(messages').result =
                         IF JsonLoads(arg) = "error" THEN "JSONDecodeError"
                         ELSE "TypeError"]_vars

\* The tool named in `t[ ""]` is being run.
C10_Witness ==
    /\ pc = "tool_run"
    /\ tool = EchoTool
    /\ Last(messages).text = <<"t", "[", " ", "\"", "\"", "]">>

(***************************************************************************)
(* The tool-call grammar on multi-line responses: the text-backend loop     *)
(* right after a first response made of up to MaxLines lines, each a        *)
(* bracket-form line, a ReAct `Action:` line or a ReAct `Final Answer:`     *)
(* line.                                                                    *)
(***************************************************************************)
FinalAnswer == <<"F", "i", "n", "a", "l", " ", "A", "n", "s", "w", "e", "r", ":">>
ActionPrefix == <<"A", "c", "t", "i", "o", "n", ":", " ">>

ResponseLines ==
    {<<"t", "[", "]">>,
     <<"t", "[", "\"", "\"", "]">>,
     <<"t", "t", "[", "]">>,
     ActionPrefix \o <<"t", "[", "]">>,
     FinalAnswer \o <<" ", "t">>}

RECURSIVE JoinLines(_)
JoinLines(ls) ==
    IF Len(ls) = 1 THEN ls[1] ELSE ls[1] \o <<"\n">> \o JoinLines(Tail(ls))

ResponseTexts == {JoinLines(ls) : ls \in UNION {[1..n -> ResponseLines] : n \in 1..MaxLines}}

InitDialect ==
    /\ chat = "ollama"
    /\ system_prompt \in {<<>>, PromptTemplate}
    /\ supported_tools \in ToolSets
    /\ \E user_prompt \in ConsoleInputs, response \in ResponseTexts :
           /\ messages = SystemMessages(system_prompt, supported_tools)
                         \o <<TextMsg("user", user_prompt), TextMsg("assistant", response)>>
           /\ assistant_response = response
    /\ pc = "loop"
    /\ exc = ""
    /\ requests = 1
    /\ nparts = 1
    /\ text = NoText
    /\ tool_uses = <<>>
    /\ stream_blocks = <<>>
    /\ message = <<>>
    /\ i = 0
    /\ tool = NoTool
    /\ calls = <<>>
    /\ AtRest

SpecDialect == InitDialect /\ [][NextGrammar]_vars

\* The lines of s, in order: s cut at its newlines.
RECURSIVE TextLines(_)
TextLines(s) ==
    IF \A j \in 1..Len(s) : s[j] # "\n" THEN <<s>>
    ELSE LET n == CHOOSE j \in 1..Len(s) : s[j] = "\n" /\ \A h \in 1..(j - 1) : s[h] # "\n"
         IN  <<SubSeq(s, 1, n - 1)>> \o TextLines(SubSeq(s, n + 1, Len(s)))

BracketLines(s) == {k \in 1..Len(TextLines(s)) : BracketForm(TextLines(s)[k])}
LastBracketLine(s) == TextLines(s)[SetMax(BracketLines(s))]

StartsWith(s, p) == Len(s) >= Len(p) /\ SubSeq(s, 1, Len(p)) = p
HasFinalAnswer(s) == \E k \in 1..Len(TextLines(s)) : StartsWith(TextLines(s)[k], FinalAnswer)

AssistantSpoke ==
    /\ chat = "ollama" /\ pc = "loop"
    /\ messages # <<>>
    /\ Last(messages).role = "assistant"

(***************************************************************************)
(* C11: when lines of the last assistant text have the bracket form, the    *)
(* text-backend loop treats the text as an invocation, whichever line holds *)
(* the form, and the name and argument it takes are those of the last such  *)
(* line.                                                                    *)
(***************************************************************************)
C11_LastBracketLineTaken ==
    [][(AssistantSpoke /\ BracketLines(Last(messages).text) # {}) =>
          LET line == LastBracketLine(Last(messages).text)
          IN  /\ OllamaRequestsTool(messages)
              /\ OllamaToolName(messages) = BracketName(line)
              /\ OllamaToolInputs(messages) = Trimmed(BracketArg(line))
              /\ pc' # "input"]_vars

(***************************************************************************)
(* C12: when the last assistant text holds a `Final Answer:` line, the next *)
(* step of the text-backend loop runs no tool and awaits operator input,    *)
(* whatever lines precede the `Final Answer:` line.                         *)
(***************************************************************************)
C12_FinalAnswerEndsTurn ==
    [][(AssistantSpoke /\ HasFinalAnswer(Last(messages).text)) =>
          (pc' = "input" /\ tool' = NoTool /\ messages' = messages)]_vars

(***************************************************************************)
(* Tool._run_command: the tool's process, the task that reads its stdout,   *)
(* the task that consumes what was read, the join of the three tasks and    *)
(* the extraction of the result from the last line of output.               *)
(*                                                                          *)
(* Bytes: "1" is an ASCII byte, "L" the lead byte and "C" the continuation  *)
(* byte of a two-byte UTF-8 character, which decodes to "U".                *)
(***************************************************************************)
RunnerLen == 3      \* bytes a process writes to stdout
MaxStderr == 3      \* bytes a process writes to stderr
PipeCapacity == 2   \* bytes a stream holds before its writer blocks
ExtractLen == 5     \* length of the outputs result extraction is applied to on its own

RunnerBytes == {"1", "L", "C"}
ChildOutputs == UNION {[1..n -> RunnerBytes] : n \in 0..RunnerLen}

\* process.stdout.read(8)
ChunkSize == 8

RECURSIVE IsUtf8(_)
IsUtf8(b) ==
    \/ b = <<>>
    \/ Head(b) \notin {"L", "C"} /\ IsUtf8(Tail(b))
    \/ Len(b) >= 2 /\ b[1] = "L" /\ b[2] = "C" /\ IsUtf8(SubSeq(b, 3, Len(b)))

\* text.decode("utf-8") of a chunk that is valid UTF-8
RECURSIVE Decode(_)
Decode(b) ==
    IF b = <<>> THEN <<>>
    ELSE IF Head(b) = "L" THEN <<"U">> \o Decode(SubSeq(b, 3, Len(b)))
    ELSE <<Head(b)>> \o Decode(Tail(b))

\* queue.put_nowait(None)
Sentinel == <<"None">>

\* Variant: the queue hands out the newest item first.
QueuePutFront(q, x) == <<x>> \o q
\* queue.put_nowait(x) on asyncio.queues.Queue(): never full, first in first out
QueuePut(q, x) == Append(q, x)

\* str.splitlines(): cut at the newlines, no empty piece after a final newline
RECURSIVE SplitLines(_)
SplitLines(s) ==
    IF s = <<>> THEN <<>>
    ELSE IF \A j \in 1..Len(s) : s[j] # "\n" THEN <<s>>
    ELSE LET n == CHOOSE j \in 1..Len(s) : s[j] = "\n" /\ \A h \in 1..(j - 1) : s[h] # "\n"
         IN  <<SubSeq(s, 1, n - 1)>> \o SplitLines(SubSeq(s, n + 1, Len(s)))

\* for i in range(len(last_line), -1, -1): chunk = last_line[i:]; json.loads(chunk)
RECURSIVE ScanSuffixes(_, _)
ScanSuffixes(last_line, n) ==
    IF n < 0 THEN [kind |-> "ValueError", value |-> <<>>]
    ELSE LET chunk == SubSeq(last_line, n + 1, Len(last_line))
         IN  IF JsonLoads(chunk) # "error"
             THEN [kind |-> "outputs", value |-> JsonValue(chunk)]
             ELSE ScanSuffixes(last_line, n - 1)

\* Lines 159-167: what _run_command returns or raises for the joined output.
ExtractResult(output) ==
    IF SplitLines(output) = <<>> THEN [kind |-> "IndexError", value |-> <<>>]
    ELSE LET last_line == Strip(Last(SplitLines(output)))
         IN  ScanSuffixes(last_line, Len(last_line))

\* The statuses a process may exit with, and process.returncode once it has.
ExitStatuses == {0, 1}
Returncode(c) == [none |-> FALSE, code |-> c]

AllRunning == [wait |-> "running", reader |-> "running", consumer |-> "running"]
AllDone == [wait |-> "done", reader |-> "done", consumer |-> "done"]

\* A tool's _run_command is entered, for every output its process may write.
InitRunner ==
    /\ NoSession
    /\ child = "unborn"
    /\ returncode = NoReturncode
    /\ child_out \in ChildOutputs
    /\ child_err \in 0..MaxStderr
    /\ stdout_buf = <<>>
    /\ stderr_buf = 0
    /\ queue = <<>>
    /\ read_log = <<>>
    /\ tasks = NoTasks
    /\ full_output = <<>>
    /\ run_pc = "spawn"
    /\ result = NoResult
    /\ SanitizerIdle
    /\ RegistryEmpty
    /\ Constructed

elsewhere == <<loop_vars, sanitizer_vars, settings_vars, construction_vars>>

\* asyncio.create_subprocess_shell: the process exists, or the call raises.
RunnerSpawn ==
    /\ run_pc = "spawn"
    /\ \/ /\ child' = "running"
          /\ tasks' = AllRunning
          /\ run_pc' = "join"
          /\ result' = result
       \/ /\ child' = child
          /\ tasks' = tasks
          /\ run_pc' = "raised"
          /\ result' = [kind |-> "OSError", value |-> <<>>]
    /\ UNCHANGED <<elsewhere, returncode, child_out, child_err, stdout_buf, stderr_buf, queue,
                   read_log, full_output>>

\* The process writes a byte to its stdout; it blocks while the stream is full.
ChildWritesStdout ==
    /\ child = "running"
    /\ child_out # <<>>
    /\ Len(stdout_buf) < PipeCapacity
    /\ stdout_buf' = Append(stdout_buf, Head(child_out))
    /\ child_out' = Tail(child_out)
    /\ UNCHANGED <<elsewhere, returncode, child, child_err, stderr_buf, queue, read_log, tasks,
                   full_output, run_pc, result>>

\* The process writes a byte to its stderr (stderr=PIPE, which nothing reads).
ChildWritesStderr ==
    /\ child = "running"
    /\ child_err > 0
    /\ stderr_buf < PipeCapacity
    /\ stderr_buf' = stderr_buf + 1
    /\ child_err' = child_err - 1
    /\ UNCHANGED <<elsewhere, returncode, child, child_out, stdout_buf, queue, read_log, tasks,
                   full_output, run_pc, result>>

\* The process has written all it had to and exits; its streams are closed.
ChildExits ==
    /\ child = "running"
    /\ child_out = <<>>
    /\ child_err = 0
    /\ child' = "exited"
    /\ \E c \in ExitStatuses : returncode' = Returncode(c)
    /\ UNCHANGED <<elsewhere, child_out, child_err, stdout_buf, stderr_buf, queue,
                   read_log, tasks, full_output, run_pc, result>>

\* process.wait() returns.
WaitReturns ==
    /\ run_pc = "join"
    /\ tasks.wait = "running"
    /\ child = "exited"
    /\ tasks' = [tasks EXCEPT !.wait = "done"]
    /\ UNCHANGED <<elsewhere, returncode, child, child_out, child_err, stdout_buf,
                   stderr_buf, queue,
                   read_log, full_output, run_pc, result>>

\* Variant: a task that raises ends alone; the join goes on waiting for the others.
TaskFailsAlone(ts, failed) == [ts EXCEPT ![failed] = "failed"]
\* asyncio TaskGroup: when a task raises, the tasks still running are cancelled
\* and the `async with` raises an ExceptionGroup once they have ended.
TaskFails(ts, failed) ==
    [t \in DOMAIN ts |->
        IF t = failed THEN "failed"
        ELSE IF ts[t] = "running" THEN "cancelled"
        ELSE ts[t]]

\* process_output: read(8) returns what is there, at most 8 bytes; the chunk is
\* decoded and enqueued. A chunk that is no valid UTF-8 makes decode raise: the
\* TaskGroup cancels the other two tasks and raises an ExceptionGroup.
ReaderReads ==
    /\ run_pc = "join"
    /\ tasks.reader = "running"
    /\ stdout_buf # <<>>
    /\ LET n == IF Len(stdout_buf) < ChunkSize THEN Len(stdout_buf) ELSE ChunkSize
           data == SubSeq(stdout_buf, 1, n)
       IN  /\ stdout_buf' = SubSeq(stdout_buf, n + 1, Len(stdout_buf))
           /\ IF IsUtf8(data)
              THEN /\ queue' = QueuePut(queue, Decode(data))
                   /\ read_log' = Append(read_log, Decode(data))
                   /\ UNCHANGED <<tasks, run_pc, result>>
              ELSE /\ tasks' = TaskFails(tasks, "reader")
                   /\ run_pc' = "raised"
                   /\ result' = [kind |-> "ExceptionGroup", value |-> <<>>]
                   /\ UNCHANGED <<queue, read_log>>
    /\ UNCHANGED <<elsewhere, returncode, child, child_out, child_err, stderr_buf, full_output>>

\* process_output: read(8) returns b"" at end of file; the sentinel is enqueued.
ReaderEnds ==
    /\ run_pc = "join"
    /\ tasks.reader = "running"
    /\ stdout_buf = <<>>
    /\ child = "exited"
    /\ queue' = QueuePut(queue, Sentinel)
    /\ tasks' = [tasks EXCEPT !.reader = "done"]
    /\ UNCHANGED <<elsewhere, returncode, child, child_out, child_err, stdout_buf, stderr_buf,
                   read_log, full_output, run_pc, result>>

\* print_output: one queue.get(), then the break or the append.
ConsumerGets ==
    /\ run_pc = "join"
    /\ tasks.consumer = "running"
    /\ queue # <<>>
    /\ queue' = Tail(queue)
    /\ IF Head(queue) = Sentinel
       THEN /\ tasks' = [tasks EXCEPT !.consumer = "done"]
            /\ full_output' = full_output
       ELSE /\ tasks' = tasks
            /\ full_output' = full_output \o Head(queue)
    /\ UNCHANGED <<elsewhere, returncode, child, child_out, child_err, stdout_buf, stderr_buf,
                   read_log, run_pc, result>>

\* print_output: print(data, end="") raises (UnicodeEncodeError) on a character
\* the encoding of the agent's own stdout does not have.
ConsumerFails ==
    /\ run_pc = "join"
    /\ tasks.consumer = "running"
    /\ queue # <<>>
    /\ Head(queue) # Sentinel
    /\ \E k \in 1..Len(Head(queue)) : Head(queue)[k] = "U"
    /\ queue' = Tail(queue)
    /\ tasks' = TaskFails(tasks, "consumer")
    /\ run_pc' = "raised"
    /\ result' = [kind |-> "ExceptionGroup", value |-> <<>>]
    /\ UNCHANGED <<elsewhere, returncode, child, child_out, child_err, stdout_buf,
                   stderr_buf, read_log, full_output>>

\* The `async with` block is left once the three tasks are done.
JoinCompletes ==
    /\ run_pc = "join"
    /\ tasks = AllDone
    /\ run_pc' = "extract"
    /\ UNCHANGED <<elsewhere, returncode, child, child_out, child_err, stdout_buf,
                   stderr_buf, queue,
                   read_log, tasks, full_output, result>>

\* Variant: a process that exited with a status other than 0 makes the run fail.
ResultCheckingStatus(output, rc) ==
    IF rc.code # 0 THEN [kind |-> "CalledProcessError", value |-> <<>>]
    ELSE ExtractResult(output)
\* The result of process.wait() is dropped and process.returncode is not read:
\* the result is extracted from the output alone.
ResultFor(output, rc) == ExtractResult(output)

\* Lines 158-167.
Extract ==
    /\ run_pc = "extract"
    /\ result' = ResultFor(full_output, returncode)
    /\ run_pc' = IF result'.kind = "outputs" THEN "returned" ELSE "raised"
    /\ UNCHANGED <<elsewhere, returncode, child, child_out, child_err, stdout_buf,
                   stderr_buf, queue,
                   read_log, tasks, full_output>>

NextRunner ==
    \/ RunnerSpawn
    \/ ChildWritesStdout
    \/ ChildWritesStderr
    \/ ChildExits
    \/ WaitReturns
    \/ ReaderReads
    \/ ReaderEnds
    \/ ConsumerGets
    \/ ConsumerFails
    \/ JoinCompletes
    \/ Extract

SpecRunner == InitRunner /\ [][NextRunner]_vars

\* The event loop runs a task that can run; the system runs a process that can run.
SpecRunnerFair == SpecRunner /\ WF_vars(NextRunner)

(***************************************************************************)
(* Result extraction on its own: the three tasks have ended, for every      *)
(* output text of up to ExtractLen characters.                              *)
(***************************************************************************)
OutputChars == {"1", "[", "]", "\"", " ", "\n"}
OutputTexts == UNION {[1..n -> OutputChars] : n \in 0..ExtractLen}

InitExtract ==
    /\ NoSession
    /\ child = "exited"
    /\ returncode \in {Returncode(c) : c \in ExitStatuses}
    /\ child_out = <<>>
    /\ child_err = 0
    /\ stdout_buf = <<>>
    /\ stderr_buf = 0
    /\ queue = <<>>
    /\ full_output \in OutputTexts
    /\ read_log = IF full_output = <<>> THEN <<>> ELSE <<full_output>>
    /\ tasks = AllDone
    /\ run_pc = "extract"
    /\ result = NoResult
    /\ SanitizerIdle
    /\ RegistryEmpty
    /\ Constructed

SpecExtract == InitExtract /\ [][Extract]_vars

\* The suffixes of line l that json.loads accepts, by their start index.
ValidSuffixes(l) == {n \in 0..Len(l) : JsonLoads(SubSeq(l, n + 1, Len(l))) # "error"}
LastLine(output) == Strip(Last(SplitLines(output)))
SetMin(S) == CHOOSE x \in S : \A y \in S : x <= y

(***************************************************************************)
(* C13: when extraction returns, the value returned is the parse of the     *)
(* longest suffix of the stripped last output line that is valid JSON (the  *)
(* first valid one when start indexes are tried from 0 upwards).            *)
(***************************************************************************)
C13_LongestSuffixReturned ==
    run_pc = "returned" =>
        LET l == LastLine(full_output)
        IN  result.value = JsonValue(SubSeq(l, SetMin(ValidSuffixes(l)) + 1, Len(l)))

(***************************************************************************)
(* C14: when the three tasks have ended and no suffix of the last output    *)
(* line is valid JSON (an output with no line at all included), extraction  *)
(* raises ValueError and nothing else.                                      *)
(***************************************************************************)
NoStructuredOutput(output) ==
    SplitLines(output) = <<>> \/ ValidSuffixes(LastLine(output)) = {}

C14_OnlyNoStructuredOutput ==
    (run_pc \in {"returned", "raised"} /\ tasks = AllDone /\ NoStructuredOutput(full_output)) =>
        (run_pc = "raised" /\ result.kind = "ValueError")

RECURSIVE Concat(_)
Concat(chunks) == IF chunks = <<>> THEN <<>> ELSE Head(chunks) \o Concat(Tail(chunks))

IsChunk(x) == x # Sentinel

(***************************************************************************)
(* C15: at every point of every interleaving in which the consumer has not  *)
(* failed, the chunks read so far are, in read order, what the consumer has *)
(* accumulated followed by what waits in the queue; the sentinel is behind  *)
(* every chunk; the consumer has stopped only once the reader has ended and  *)
(* the queue is drained; and when the                                       *)
(* three tasks have ended the accumulated output is the concatenation of    *)
(* all chunks read, with nothing of the process's output left unread.       *)
(***************************************************************************)
C15_OutputIsChunksInOrder ==
    /\ tasks.consumer # "failed" =>
           Concat(read_log) = full_output \o Concat(SelectSeq(queue, IsChunk))
    /\ \A k \in 1..Len(queue) : queue[k] = Sentinel => k = Len(queue)
    /\ tasks.consumer = "done" =>
           /\ tasks.reader = "done"
           /\ queue = <<>>
           /\ full_output = Concat(read_log)
    /\ tasks = AllDone =>
           /\ full_output = Concat(read_log)
           /\ child_out = <<>> /\ stdout_buf = <<>>

\* The three tasks have ended after the output was read in two chunks.
C15_Witness ==
    /\ tasks = AllDone
    /\ Len(read_log) = 2
    /\ full_output = <<"1", "U">>

(***************************************************************************)
(* C16: once the process is started, whatever finite output it writes to    *)
(* its streams before it exits, the join of process-wait, reader and        *)
(* consumer eventually ends.                                                *)
(***************************************************************************)
C16_JoinEnds == (run_pc = "join") ~> (run_pc # "join")

(***************************************************************************)
(* Construction of the agent (Agent.__init__, reached from cli.py start     *)
(* through Agent.from_file), then start_chat and the conversation loops.    *)
(* agent_secrets is the `secrets` argument, tool_files the descriptors of   *)
(* the configured tools; the tools are loaded one by one into               *)
(* supported_tools.                                                         *)
(***************************************************************************)
ToolSecret == "S"
SecretNames == {ApiKey, ToolSecret}

AgentSecretsArgs == {NoSecrets, [form |-> "list", names |-> {ApiKey}]}
SecretTool ==
    [name |-> <<"t">>, language |-> "python",
     secrets |-> [form |-> "list", names |-> {ToolSecret}]]
RustTool == [name |-> <<"t">>, language |-> "rust", secrets |-> NoSecrets]
ToolFiles == {<<SecretTool>>, <<RustTool>>}

InitConstruct ==
    /\ chat \in {"ollama", "anthropic"}
    /\ system_prompt \in {<<>>, PromptTemplate}
    /\ supported_tools = <<>>
    /\ messages = <<>>
    /\ pc = "init_secrets"
    /\ exc = ""
    /\ requests = 0
    /\ nparts = 0
    /\ assistant_response = <<>>
    /\ text = NoText
    /\ tool_uses = <<>>
    /\ stream_blocks = <<>>
    /\ message = <<>>
    /\ i = 0
    /\ tool = NoTool
    /\ calls = <<>>
    /\ RunnerIdle
    /\ SanitizerIdle
    /\ environ \in SUBSET SecretNames
    /\ agent_secrets \in AgentSecretsArgs
    /\ tool_files \in ToolFiles
    /\ registry = RegistryOf(tool_files)
    /\ lookup = NoLookup

\* self._secrets once lines 39-43 have run
SelfSecrets == IF agent_secrets.form = "none" THEN {} ELSE agent_secrets.names

\* Lines 39-43: {s: os.environ[s] for s in secrets} raises KeyError on a missing name.
AgentSecrets ==
    /\ pc = "init_secrets"
    /\ IF agent_secrets.form = "list" /\ ~(agent_secrets.names \subseteq environ)
       THEN Raise("KeyError")
       ELSE /\ pc' = "init_tools"
            /\ UNCHANGED <<config, components, messages, exc, counters, ollama_locals,
                           anthropic_locals, tool>>

\* Variant: Tool.__init__ takes the secrets as found.
ToolSecretsAssumed(d) == TRUE
\* Tool.__init__, lines 41-48: every listed secret is in os.environ.
ToolSecretsFound(d) == d.secrets.form = "list" => d.secrets.names \subseteq environ

\* Tool.from_config: the Tool built from a descriptor.
LoadedTool(d) == [name |-> d.name, language |-> d.language]

\* _load_tools, one iteration: get_tool_path, Tool.from_file, Tool.__init__, append.
LoadTool ==
    /\ pc = "init_tools"
    /\ Len(supported_tools) < Len(tool_files)
    /\ LET d == tool_files[Len(supported_tools) + 1]
       IN  IF registry["tools"][d.name] = <<>> \/ ~ToolSecretsFound(d)
           THEN Raise("ValueError")
           ELSE /\ supported_tools' = Append(supported_tools, LoadedTool(d))
                /\ UNCHANGED <<chat, system_prompt, components, messages, pc, exc,
                               counters, ollama_locals, anthropic_locals, tool>>

\* Lines 53-64: the provider's client; AsyncAnthropic takes the key from self._secrets.
MakeClient ==
    /\ pc = "init_tools"
    /\ Len(supported_tools) = Len(tool_files)
    /\ IF chat = "anthropic" /\ ApiKey \notin SelfSecrets
       THEN Raise("KeyError")
       ELSE /\ pc' = "constructed"
            /\ UNCHANGED <<config, components, messages, exc, counters, ollama_locals,
                           anthropic_locals, tool>>

\* start_chat: the loop the provider is dispatched to.
Dispatch(provider) == IF provider = "ollama" THEN "ollama_with_tools" ELSE provider

\* cli.py start: asyncio.run(agent.start_chat()); start_chat enters the provider's
\* loop, whose first statements create `messages`.
StartChat ==
    /\ pc = "constructed"
    /\ chat' = Dispatch(chat)
    /\ messages' = IF Dispatch(chat) = "ollama_with_tools"
                   THEN SystemMessages(system_prompt, supported_tools) ELSE <<>>
    /\ pc' = "loop"
    /\ UNCHANGED <<system_prompt, supported_tools, components, exc, counters,
                   ollama_locals, anthropic_locals, tool>>

(***************************************************************************)
(* _start_ollama_chat_with_tools, the loop start_chat runs for "ollama".    *)
(***************************************************************************)
\* not messages or messages[-1]["role"] not in ["user", "tool"]
OllamaWithToolsNeedsPrompt(msgs) == msgs = <<>> \/ Last(msgs).role \notin {"user", "tool"}

OllamaWithToolsLoopTop ==
    /\ chat = "ollama_with_tools"
    /\ pc = "loop"
    /\ pc' = IF OllamaWithToolsNeedsPrompt(messages) THEN "input" ELSE "request"
    /\ UNCHANGED <<config, components, messages, exc, counters, ollama_locals,
                   anthropic_locals, tool>>

\* res = await self._client.chat(**args) returns; res is printed; `assert False`.
OllamaWithToolsResponse ==
    /\ chat = "ollama_with_tools"
    /\ pc = "stream"
    /\ Raise("AssertionError")

\* What runs from `orchestria agent start`: construction, start_chat, then the loop
\* of the provider.
NextConstruct ==
    \/ AgentSecrets
    \/ LoadTool
    \/ MakeClient
    \/ StartChat
    \/ UserInput
    \/ Request
    \/ ProviderFailure
    \/ Cancel
    \/ OllamaWithToolsLoopTop
    \/ OllamaWithToolsResponse
    \/ AnthropicLoopTop
    \/ AnthropicTextBlock
    \/ AnthropicToolUseBlock
    \/ AnthropicStreamEnd
    \/ AnthropicToolCall
    \/ AnthropicToolReturn

SpecConstruct == InitConstruct /\ [][NextConstruct]_vars

\* A secret named by the agent's list or by a configured tool's list is not defined.
MissingAgentSecret == agent_secrets.form = "list" /\ ~(agent_secrets.names \subseteq environ)
MissingToolSecret ==
    \E k \in 1..Len(tool_files) :
        /\ tool_files[k].secrets.form = "list"
        /\ ~(tool_files[k].secrets.names \subseteq environ)

\* No conversation has begun: no history, no provider request, no tool called or run.
NothingStarted ==
    /\ messages = <<>>
    /\ requests = 0
    /\ tool = NoTool /\ calls = <<>>
    /\ run_pc = "idle" /\ child = "unborn"

(***************************************************************************)
(* C17: when a secret listed by the agent or by one of its configured tools *)
(* is not in the environment, construction never completes: the program is  *)
(* still constructing the agent or has ended with the error raised for the  *)
(* missing name (KeyError for the agent's list, ValueError for a tool's),   *)
(* and no message, provider request, tool call or tool process exists.      *)
(***************************************************************************)
C17_MissingSecretFailsConstruction ==
    (MissingAgentSecret \/ MissingToolSecret) =>
        /\ pc \in {"init_secrets", "init_tools", "terminated"}
        /\ pc = "terminated" =>
               exc = IF MissingAgentSecret THEN "KeyError" ELSE "ValueError"
        /\ NothingStarted

\* The agent's secret was found, then loading the tool failed on the tool's secret.
C17_Witness ==
    /\ pc = "terminated" /\ exc = "ValueError"
    /\ agent_secrets.form = "list" /\ ApiKey \in environ
    /\ MissingToolSecret
    /\ supported_tools = <<>>

SupportedLanguage == "python"

(***************************************************************************)
(* C18: when a configured tool's descriptor declares a language other than  *)
(* the supported one, the tool is never loaded into the agent's tool set    *)
(* and no session starts: the program is still constructing the agent or    *)
(* has ended with an error.                                                 *)
(***************************************************************************)
C18_UnsupportedLanguageFailsLoad ==
    (\E k \in 1..Len(tool_files) : tool_files[k].language # SupportedLanguage) =>
        /\ \A k \in 1..Len(supported_tools) : supported_tools[k].language = SupportedLanguage
        /\ pc \in {"init_secrets", "init_tools", "terminated"}
        /\ NothingStarted

(***************************************************************************)
(* The registry (_Settings): for each resource and name an ordered dict     *)
(* from version to folder, kept in config.json; versions are numbers, a     *)
(* greater number is a later version.                                       *)
(***************************************************************************)
MaxVersion == 2     \* versions a name is registered under
Versions == 1..MaxVersion
Folders == {"p", "q"}

HasVersion(versions, version) == \E k \in 1..Len(versions) : versions[k].version = version

\* registry[resource][name][version] = folder on a dict: a new key goes last, an
\* old key keeps its place.
DictSet(versions, version, folder) ==
    IF HasVersion(versions, version)
    THEN [k \in 1..Len(versions) |->
             IF versions[k].version = version
             THEN [version |-> version, folder |-> folder] ELSE versions[k]]
    ELSE Append(versions, [version |-> version, folder |-> folder])

\* registry[resource][name].pop(version)
DictPop(versions, version) ==
    LET Keep(e) == e.version # version IN SelectSeq(versions, Keep)

\* Path(folder) / MANIFEST
ManifestIn(folder) == [none |-> FALSE, folder |-> folder]

\* _Settings._get_path
GetPath(resource, name, version) ==
    LET versions == registry[resource][name]
    IN  IF versions = <<>> THEN NoPath
        ELSE IF version # NoVersion /\ ~HasVersion(versions, version) THEN NoPath
        ELSE IF version = NoVersion THEN ManifestIn(versions[1].folder)
        ELSE ManifestIn((CHOOSE e \in {versions[k] : k \in 1..Len(versions)} :
                             e.version = version).folder)

InitSettings ==
    /\ NoSession
    /\ RunnerIdle
    /\ SanitizerIdle
    /\ RegistryEmpty
    /\ Constructed

unregistered == <<loop_vars, runner_vars, sanitizer_vars, construction_vars>>

\* register_tool / register_agent
Register ==
    /\ \E resource \in Resources, name \in Names, version \in Versions, folder \in Folders :
           registry' = [registry EXCEPT
                            ![resource][name] = DictSet(@, version, folder)]
    /\ UNCHANGED <<unregistered, lookup>>

\* delete_tool / delete_agent
Delete ==
    /\ \E resource \in Resources, name \in Names, version \in Versions :
           IF ~HasVersion(registry[resource][name], version)
           THEN registry' = registry
           ELSE registry' = [registry EXCEPT ![resource][name] = DictPop(@, version)]
    /\ UNCHANGED <<unregistered, lookup>>

\* get_tool_path / get_agent_path
Lookup ==
    /\ \E resource \in Resources, name \in Names, version \in Versions \cup {NoVersion} :
           lookup' = [resource |-> resource, name |-> name, version |-> version,
                      path |-> GetPath(resource, name, version)]
    /\ UNCHANGED <<unregistered, registry>>

NextSettings ==
    \/ Register
    \/ Delete
    \/ Lookup

SpecSettings == InitSettings /\ [][NextSettings]_vars

\* The folder registered for the latest version of the name.
LatestFolder(versions) ==
    (CHOOSE e \in {versions[k] : k \in 1..Len(versions)} :
         \A k \in 1..Len(versions) : versions[k].version <= e.version).folder

(***************************************************************************)
(* C19: after any sequence of register and delete operations, a lookup      *)
(* without a version gives, for every resource and name, the manifest path  *)
(* of the latest version registered at that moment, and no path when no     *)
(* version is registered.                                                   *)
(***************************************************************************)
C19_LatestVersionByDefault ==
    \A resource \in Resources, name \in Names :
        GetPath(resource, name, NoVersion) =
            IF registry[resource][name] = <<>> THEN NoPath
            ELSE ManifestIn(LatestFolder(registry[resource][name]))

(***************************************************************************)
(* Argument sanitization (Tool.run, lines 101-105), applied to every        *)
(* argument string of up to ArgLen characters, and applied again to its own *)
(* result.                                                                  *)
(***************************************************************************)
ArgLen == 4         \* length of the argument strings
MaxPasses == 2      \* applications of the sanitization to one argument

ArgChars == {"'", "\\", "{", "}", "\"", "t"}
ArgTexts == UNION {[1..n -> ArgChars] : n \in 0..ArgLen}

\* re.sub(r"(?<!\\)'", '"', args): a single quote not preceded by a backslash
ReplaceQuotes(a) ==
    [k \in 1..Len(a) |->
        IF a[k] = "'" /\ ~(k > 1 /\ a[k - 1] = "\\") THEN "\"" ELSE a[k]]

\* args.replace("{", "{{").replace("}", "}}")
RECURSIVE DoubleBraces(_)
DoubleBraces(a) ==
    IF a = <<>> THEN <<>>
    ELSE (IF Head(a) \in {"{", "}"} THEN <<Head(a), Head(a)>> ELSE <<Head(a)>>)
         \o DoubleBraces(Tail(a))

\* Escaping of double quotes for the shell.
RECURSIVE EscapeQuotes(_)
EscapeQuotes(a) ==
    IF a = <<>> THEN <<>>
    ELSE (IF Head(a) = "\"" THEN <<"\\", "\"">> ELSE <<Head(a)>>) \o EscapeQuotes(Tail(a))

\* Variant: every single quote is replaced, escaped or not.
RECURSIVE ReplaceEveryQuote(_)
ReplaceEveryQuote(a) ==
    IF a = <<>> THEN <<>>
    ELSE <<IF Head(a) = "'" THEN "\"" ELSE Head(a)>> \o ReplaceEveryQuote(Tail(a))

SanitizeEveryQuote(a) == DoubleBraces(ReplaceEveryQuote(a))
\* Variant: double quotes are escaped as well.
SanitizeEscaping(a) == DoubleBraces(EscapeQuotes(ReplaceQuotes(a)))
Sanitize(a) == DoubleBraces(ReplaceQuotes(a))

InitSanitize ==
    /\ NoSession
    /\ RunnerIdle
    /\ run_args \in ArgTexts
    /\ args_in = <<>>
    /\ command = <<>>
    /\ passes = 0
    /\ RegistryEmpty
    /\ Constructed

\* run is called with a string and applies the two substitutions to it; a later
\* call is given the string the earlier one produced.
SanitizeArgs ==
    /\ passes < MaxPasses
    /\ run_pc = "idle"
    /\ args_in' = run_args
    /\ run_args' = Sanitize(run_args)
    /\ passes' = passes + 1
    /\ UNCHANGED <<loop_vars, runner_vars, command, settings_vars, construction_vars>>

\* f"'{args}'"
ShellQuoted(a) == <<"'">> \o a \o <<"'">>

\* Lines 109-110: the command is built and _run_command entered, where the
\* process is spawned.
RunCommand ==
    /\ passes > 0
    /\ run_pc = "idle"
    /\ command' = ShellQuoted(run_args)
    /\ run_pc' = "spawn"
    /\ UNCHANGED <<loop_vars, child, returncode, child_out, child_err, stdout_buf,
                   stderr_buf, queue, read_log, tasks, full_output, result, run_args,
                   args_in, passes, settings_vars, construction_vars>>

NextSanitize ==
    \/ SanitizeArgs
    \/ RunCommand

SpecSanitize == InitSanitize /\ [][NextSanitize]_vars

\* a holds no single quote and no brace
Plain(a) == \A k \in 1..Len(a) : a[k] \notin {"'", "{", "}"}

(***************************************************************************)
(* C20: sanitizing an argument string that holds no single quote and no     *)
(* brace gives the string itself, the first time and every time after.      *)
(***************************************************************************)
C20_SanitizeIdempotentOnPlain ==
    [][Plain(run_args) => (run_args' = run_args /\ Sanitize(run_args') = run_args)]_vars

\* A string of a backslash, a double quote and a letter was sanitized twice.
C20_Witness ==
    /\ passes = 2
    /\ run_args = <<"\\", "\"", "t">>

(***************************************************************************)
(* C21: history is append-only. Every step of a loop leaves each message    *)
(* already in the history where it is and as it is, and removes none: a     *)
(* step either leaves the history alone or appends one message at its end.  *)
(***************************************************************************)
C21_HistoryAppendOnly ==
    [][\/ messages' = messages
       \/ /\ Len(messages') = Len(messages) + 1
          /\ SubSeq(messages', 1, Len(messages)) = messages]_vars

\* A second request is under way over a history of four messages or more, one of
\* them the result of a tool.
C21_Witness ==
    /\ requests = 2
    /\ pc = "stream"
    /\ Len(messages) >= 4
    /\ \E k \in 1..Len(messages) : IsToolResult(messages[k])

(***************************************************************************)
(* C22: within a session at most one tool process runs at a time. The loops *)
(* await each tool.run before they start the next one, so the claim stands  *)
(* on the runner: when a run of a tool has ended, by returning or by        *)
(* raising, its process is no longer running and none of the three joined   *)
(* tasks is.                                                                *)
(***************************************************************************)
C22_RunEndsWithItsProcess ==
    run_pc \in {"returned", "raised"} =>
        /\ child # "running"
        /\ \A t \in DOMAIN tasks : tasks[t] # "running"

(***************************************************************************)
(* C23: for every provider start_chat accepts, an agent with a non-empty    *)
(* system prompt has the prompt, rendered over the tool catalog, as the     *)
(* system message history[0]; it is there before the operator is first      *)
(* prompted, and no later position holds a system message.                  *)
(***************************************************************************)
InSession == pc \in {"loop", "input", "request", "stream", "tools", "tool_run"}

C23_SystemMessageFirst ==
    (InSession /\ system_prompt # <<>>) =>
        /\ pc = "input" => messages # <<>>
        /\ messages # <<>> =>
               /\ messages[1] = TextMsg("system", Rendered(system_prompt, supported_tools))
               /\ \A k \in 2..Len(messages) : messages[k].role # "system"

(***************************************************************************)
(* C24: every model turn that reaches its end appends exactly one assistant *)
(* message to the history, whatever the turn held: text only, tool-use      *)
(* blocks only, both, or nothing.                                           *)
(***************************************************************************)
TurnEnds == pc = "stream" /\ pc' \in {"loop", "tools"}

C24_TurnAppendsOneAssistant ==
    [][TurnEnds =>
          /\ Len(messages') = Len(messages) + 1
          /\ SubSeq(messages', 1, Len(messages)) = messages
          /\ Last(messages').role = "assistant"]_vars

(***************************************************************************)
(* C25: after a completed model turn that requested no tool (no tool-use    *)
(* block on the structured backend, no grammar match on the text backend)   *)
(* the loop next awaits the operator: its next step from the top of the     *)
(* loop is the prompt, not a provider request.                              *)
(***************************************************************************)
NoToolTurnCompleted ==
    /\ pc = "loop"
    /\ requests > 0
    /\ \/ chat = "anthropic" /\ tool_uses = <<>>
       \/ chat = "ollama" /\ Last(messages).role = "assistant" /\ ~AsksForTool(Last(messages))

C25_NoToolTurnAwaitsInput == [][NoToolTurnCompleted => pc' = "input"]_vars

(***************************************************************************)
(* C26: for every argument string, what Tool.run hands to the spawn is the  *)
(* string obtained by first replacing each single quote not preceded by a   *)
(* backslash with a double quote, then doubling each brace; both steps are  *)
(* done on every call, before the process is spawned.                       *)
(***************************************************************************)
\* The first step, character by character with the character before it.
RECURSIVE QuotesReplaced(_, _)
QuotesReplaced(a, before) ==
    IF a = <<>> THEN <<>>
    ELSE <<IF Head(a) = "'" /\ before # "\\" THEN "\"" ELSE Head(a)>>
         \o QuotesReplaced(Tail(a), Head(a))

\* The second step, from the end of the string.
RECURSIVE BracesDoubled(_)
BracesDoubled(a) ==
    IF a = <<>> THEN <<>>
    ELSE BracesDoubled(SubSeq(a, 1, Len(a) - 1))
         \o (IF Last(a) = "{" THEN <<"{", "{">>
             ELSE IF Last(a) = "}" THEN <<"}", "}">>
             ELSE <<Last(a)>>)

C26_SanitizedBeforeSpawn ==
    /\ passes > 0 => run_args = BracesDoubled(QuotesReplaced(args_in, ""))
    /\ run_pc = "spawn" =>
           /\ passes > 0
           /\ command = <<"'">> \o BracesDoubled(QuotesReplaced(args_in, "")) \o <<"'">>

\* The process is about to be spawned for an argument of an escaped quote, a bare
\* quote and a brace.
C26_Witness ==
    /\ run_pc = "spawn"
    /\ passes = 1
    /\ args_in = <<"\\", "'", "'", "{">>
    /\ command = <<"'", "\\", "'", "\"", "{", "{", "'">>

(***************************************************************************)
(* C27: the exit status of the child does not affect the result. For the    *)
(* same captured output, a child that exited with a non-zero status yields  *)
(* the payload, or the failure, that a child exiting with 0 yields.         *)
(***************************************************************************)
C27_ExitStatusIgnored ==
    (run_pc \in {"returned", "raised"} /\ tasks = AllDone) =>
        result = ResultFor(full_output, Returncode(0))

\* A child that exited with status 1 after printing a payload: the payload is
\* returned.
C27_Witness ==
    /\ run_pc = "returned"
    /\ returncode = Returncode(1)
    /\ result.kind = "outputs"
    /\ result.value # <<>>

(***************************************************************************)
(* C28: the hand-off queue between the reader and the consumer is bounded:  *)
(* the chunks waiting in it never exceed a fixed capacity, and the reader   *)
(* stops reading while it is full. Whatever the capacity, a process that    *)
(* writes more chunks than that must find the reader waiting: the queue     *)
(* never holds as many chunks as the longest output has bytes.              *)
(***************************************************************************)
C28_QueueBounded == Len(SelectSeq(queue, IsChunk)) < RunnerLen

(***************************************************************************)
(* C29: if one of the three joined units (process-wait, reader, consumer)   *)
(* fails, the join as a whole fails: no other unit is left running, the     *)
(* runner raises, and no payload is extracted from the incomplete output.   *)
(***************************************************************************)
C29_JoinFailsAsAWhole ==
    (\E t \in DOMAIN tasks : tasks[t] = "failed") =>
        /\ \A t \in DOMAIN tasks : tasks[t] # "running"
        /\ run_pc = "raised"
        /\ result = [kind |-> "ExceptionGroup", value |-> <<>>]

\* The consumer failed while the reader and the wait for the process were still
\* running: both were cancelled.
C29_Witness ==
    /\ tasks = [wait |-> "cancelled", reader |-> "cancelled", consumer |-> "failed"]
    /\ run_pc = "raised"
    /\ full_output # <<>>

(***************************************************************************)
(* C30: for every provider accepted at construction ("ollama", "anthropic") *)
(* start_chat runs a loop that survives its first model response: no        *)
(* assertion fails, the response is appended as an assistant message and    *)
(* the loop goes on to further turns.                                       *)
(***************************************************************************)
FirstResponseArrives ==
    /\ pc = "stream"
    /\ requests = 1
    /\ pc' # "stream"
    /\ exc' \notin {"ProviderError", "CancelledError"}

C30_LoopSurvivesFirstResponse ==
    [][FirstResponseArrives =>
          /\ exc' # "AssertionError"
          /\ pc' # "terminated"
          /\ Len(messages') = Len(messages) + 1
          /\ Last(messages').role = "assistant"]_vars

(***************************************************************************)
(* C31: the assistant message appended after a turn of the structured       *)
(* backend holds every text block and every tool-use block the turn's       *)
(* stream completed, in the order they were emitted: none is dropped or     *)
(* moved.                                                                   *)
(***************************************************************************)
\* The content of a message as blocks; a message whose content is a string holds
\* one text block.
BlocksIn(m) == IF m.form = "text" THEN <<TextBlock(m.text)>> ELSE m.blocks

StructuredTurnAppends ==
    /\ chat = "anthropic"
    /\ TurnEnds
    /\ Len(messages') = Len(messages) + 1

C31_BlocksKeptInOrder ==
    [][StructuredTurnAppends => BlocksIn(Last(messages')) = stream_blocks]_vars

(***************************************************************************)
(* C32: for every byte stream of the child's stdout that is valid UTF-8 as  *)
(* a whole, the reader succeeds on every chunk wherever the boundaries of   *)
(* the chunks fall, also inside a multi-byte character, and the accumulated *)
(* output is the decoding of the whole stream.                              *)
(***************************************************************************)
\* str.encode("utf-8"): the bytes of a decoded text.
RECURSIVE Encode(_)
Encode(s) ==
    IF s = <<>> THEN <<>>
    ELSE (IF Head(s) = "U" THEN <<"L", "C">> ELSE <<Head(s)>>) \o Encode(Tail(s))

\* The whole stream while the reader has not failed: the bytes of the chunks it
\* has read, the bytes waiting to be read, the bytes the process has yet to write.
Stream == Encode(Concat(read_log)) \o stdout_buf \o child_out

C32_ChunksDecodeWherever ==
    [][/\ (tasks.reader = "running" /\ IsUtf8(Stream)) => tasks'.reader # "failed"
       /\ (tasks' = AllDone /\ IsUtf8(Stream')) => full_output' = Decode(Stream')]_vars
====
